---- MODULE Spec2Model ----
(***************************************************************************)
(* Model of two buffer-wrapping layers of polars:                          *)
(*   crates/polars-row/src/row.rs            RowsEncoded, RowsEncodedIter  *)
(*   crates/polars-arrow/.../primitive/data.rs  PrimitiveArray <-> ArrayData*)
(*                                                                         *)
(* Unsigned 64-bit integers are kept at full width.  TLC's integers are    *)
(* 32-bit, so a u64 is a tuple of four 16-bit limbs, most significant      *)
(* first; an i64 is a sign and a magnitude, produced from a u64 by the     *)
(* two's-complement reading of the same 64 bits.                           *)
(***************************************************************************)
EXTENDS Integers, Sequences, FiniteSets, TLC

\* ---------------------------------------------------------------- bounds
MaxValuesLen == 2
MaxRows == 2
MaxStorage == 3

\* the two iterators taken from one row buffer
IterIds == {1, 2}
\* The code moves bytes, native values and validity bits about without ever
\* reading them, so one storage of each length stands for all of them; its
\* elements differ from one another, which shows every misplaced index.
ByteAt(k) == 96 + k
NativeAt(k) == 10 * k
\* what a read outside a buffer may find
GarbageBytes == {0, 255}
GarbageNatives == {-1, 0}

BoundedSeq(S, n) == UNION {[1..k -> S] : k \in 0..n}

\* Option<T>: None is the empty tuple, Some(x) the one-element tuple
None == <<>>
Some(x) == <<x>>
IsSome(opt) == Len(opt) = 1
Unwrap(opt) == opt[1]

\* ------------------------------------------------------- 64-bit integers
LimbBase == 2^16
LimbMax == LimbBase - 1

\* a small natural number as a u64
FromNat(n) == <<0, 0, 0, n>>
\* a u64 that fits one limb, as a natural number
FitsNat(u) == u[1] = 0 /\ u[2] = 0 /\ u[3] = 0
ToNat(u) == u[4]

U64Lt(a, b) == \E k \in 1..4 : a[k] < b[k] /\ \A j \in 1..(k - 1) : a[j] = b[j]
U64Le(a, b) == a = b \/ U64Lt(a, b)

\* 2^63, the first u64 whose bit pattern is a negative i64
TwoPow63 == <<LimbBase \div 2, 0, 0, 0>>
\* i64::MAX as u64 = 2^63 - 1
I64MaxAsU64 == <<(LimbBase \div 2) - 1, LimbMax, LimbMax, LimbMax>>
\* 2^63 - 2
I64MaxLess1 == <<(LimbBase \div 2) - 1, LimbMax, LimbMax, LimbMax - 1>>

U64Inc(c) ==
    IF c[4] < LimbMax THEN <<c[1], c[2], c[3], c[4] + 1>>
    ELSE IF c[3] < LimbMax THEN <<c[1], c[2], c[3] + 1, 0>>
    ELSE IF c[2] < LimbMax THEN <<c[1], c[2] + 1, 0, 0>>
    ELSE <<(c[1] + 1) % LimbBase, 0, 0, 0>>

\* 2^64 - u, the magnitude of the negative i64 that shares u's bits
U64Neg(u) == U64Inc(<<LimbMax - u[1], LimbMax - u[2], LimbMax - u[3], LimbMax - u[4]>>)

\* bytemuck::cast::<u64, i64>: the same 64 bits read as two's complement
CastI64(u) ==
    IF u[1] >= LimbBase \div 2
    THEN [neg |-> TRUE, mag |-> U64Neg(u)]
    ELSE [neg |-> FALSE, mag |-> u]

\* the i64 x has the numeric value of the u64 u
SameNumber(x, u) == x.neg = FALSE /\ x.mag = u

\* `x as usize` of a u64 on a 64-bit target: all 64 bits are kept
AsUsize(u) == u

\* ------------------------------------------------------------ row buffer
\* checks(offsets): the outcome of the assertion on the last offset
ChecksFirst(offsets) ==
    IF offsets = <<>> THEN "unwrap on None"
    ELSE IF U64Lt(offsets[1], I64MaxAsU64) THEN "ok"
    ELSE "overflow"

checks(offsets) ==
    IF offsets = <<>> THEN "unwrap on None"
    ELSE IF U64Lt(offsets[Len(offsets)], I64MaxAsU64) THEN "ok"
    ELSE "overflow"

\* BinaryArray::new(dtype, offsets, values, validity)
BinaryArrayNew(dtype, offs, vals, validity) ==
    [dtype |-> dtype, offsets |-> offs, values |-> vals, validity |-> validity]

\* bytemuck::cast_vec / cast_slice::<u64, i64>: element by element
CastOffsets(offsets) == [k \in 1..Len(offsets) |-> CastI64(offsets[k])]

\* the outcome of an exporting call: the panic message ("" for none), the
\* array returned, and the number of calls of checks it made
Outcome(panic, arr, n) == [panic |-> panic, array |-> arr, checks |-> n]

RowsToArrayDropFirst(buf, offsets) ==
    LET c == checks(offsets) IN
    IF c # "ok" THEN Outcome(c, None, 1)
    ELSE Outcome("", Some(BinaryArrayNew("LargeBinary", CastOffsets(Tail(offsets)), buf, None)), 1)

rows_to_array(buf, offsets) ==
    LET c == checks(offsets) IN
    IF c # "ok" THEN Outcome(c, None, 1)
    ELSE Outcome("", Some(BinaryArrayNew("LargeBinary", CastOffsets(offsets), buf, None)), 1)

\* RowsEncoded::borrow_array as a function of the buffer
BorrowArrayDropLast(vals, offsets) ==
    LET c == checks(offsets) IN
    IF c # "ok" THEN Outcome(c, None, 1)
    ELSE Outcome("", Some(BinaryArrayNew("LargeBinary",
                 CastOffsets(SubSeq(offsets, 1, Len(offsets) - 1)), vals, None)), 1)

borrow_array(vals, offsets) ==
    LET c == checks(offsets) IN
    IF c # "ok" THEN Outcome(c, None, 1)
    ELSE Outcome("", Some(BinaryArrayNew("LargeBinary", CastOffsets(offsets), vals, None)), 1)

\* RowsEncoded::into_array as a function of the buffer
into_array(vals, offsets) == rows_to_array(vals, offsets)

\* binary_to_binview: one view per row over the array's value bytes
binary_to_binview(arr) ==
    [dtype |-> "BinaryView", len |-> Len(arr.offsets) - 1, views |-> arr]

\* RowsEncoded::into_binview as a function of the buffer
into_binview(vals, offsets) ==
    LET r == into_array(vals, offsets) IN
    IF r.panic # "" THEN r
    ELSE Outcome("", Some(binary_to_binview(Unwrap(r.array))), r.checks)

\* RowsEncoded::iter: the iterator returned, or the panic of offsets[1..]
IterFromZero(vals, offsets) ==
    IF Len(offsets) < 1
    THEN [panic |-> "range start index 1 out of range", it |-> None]
    ELSE [panic |-> "", it |-> Some([offset |-> FromNat(0), end |-> Tail(offsets)])]

IterKeepsFirst(vals, offsets) ==
    IF Len(offsets) < 1
    THEN [panic |-> "range start index 1 out of range", it |-> None]
    ELSE [panic |-> "", it |-> Some([offset |-> AsUsize(offsets[1]), end |-> offsets])]

iter(vals, offsets) ==
    IF Len(offsets) < 1
    THEN [panic |-> "range start index 1 out of range", it |-> None]
    ELSE [panic |-> "", it |-> Some([offset |-> AsUsize(offsets[1]), end |-> Tail(offsets)])]

\* the range offset..new_offset lies inside a slice of length n
InBounds(lo, hi, n) == U64Le(lo, hi) /\ U64Le(hi, FromNat(n))

\* values[lo..hi] for a range inside values
Slice(vals, lo, hi) == SubSeq(vals, ToNat(lo) + 1, ToNat(hi))

\* RowsEncodedIter::next on iterator state it over the borrowed vals:
\*   some     whether Some(payload) is returned
\*   defined  whether get_unchecked was called inside the bounds of vals
\*   payload  the slice returned when defined
\*   it       the iterator state afterwards
\*   lo, hi   the range handed to get_unchecked
NextNoAdvance(it, vals) ==
    IF it.end = <<>>
    THEN [some |-> FALSE, defined |-> TRUE, payload |-> <<>>, it |-> it,
          lo |-> it.offset, hi |-> it.offset]
    ELSE LET new_offset == AsUsize(Head(it.end))
             ok == InBounds(it.offset, new_offset, Len(vals))
         IN [some |-> TRUE, defined |-> ok,
             payload |-> IF ok THEN Slice(vals, it.offset, new_offset) ELSE <<>>,
             it |-> [offset |-> it.offset, end |-> Tail(it.end)],
             lo |-> it.offset, hi |-> new_offset]

next(it, vals) ==
    IF it.end = <<>>
    THEN [some |-> FALSE, defined |-> TRUE, payload |-> <<>>, it |-> it,
          lo |-> it.offset, hi |-> it.offset]
    ELSE LET new_offset == AsUsize(Head(it.end))
             ok == InBounds(it.offset, new_offset, Len(vals))
         IN [some |-> TRUE, defined |-> ok,
             payload |-> IF ok THEN Slice(vals, it.offset, new_offset) ELSE <<>>,
             it |-> [offset |-> new_offset, end |-> Tail(it.end)],
             lo |-> it.offset, hi |-> new_offset]

\* RowsEncodedIter::size_hint
size_hint(it) == <<Len(it.end), Some(Len(it.end))>>

\* ---------------------------------------------------------------- bridge
\* A polars Buffer<T> is a window [offset, offset + length) of elements of a
\* shared storage; an arrow Buffer is a window of bytes of a shared storage.
\* A polars Bitmap and an arrow NullBuffer are windows of bits alike.

\* size_of::<T>() for the native type behind a datatype tag
NativeSize(dtype) == IF dtype \in {"Int32", "arrow::Int32"} THEN 4 ELSE 8

\* ArrowDataType -> arrow_schema::DataType and back (dtype.clone().into())
DtypeToArrow(dtype) == IF dtype = "Int32" THEN "arrow::Int32" ELSE "arrow::Int64"
DtypeFromArrow(dtype) == IF dtype = "arrow::Int32" THEN "Int32" ELSE "Int64"

\* Buffer<T> -> arrow_buffer::Buffer: the same storage, the window in bytes
BufferToArrow(buf, dtype) ==
    [data |-> buf.data,
     byte_offset |-> buf.offset * NativeSize(dtype),
     byte_len |-> buf.length * NativeSize(dtype)]

\* arrow_buffer::Buffer -> Buffer<T>: the same storage, the window in elements
BufferFromArrow(ab, dtype) ==
    [data |-> ab.data,
     offset |-> ab.byte_offset \div NativeSize(dtype),
     length |-> ab.byte_len \div NativeSize(dtype)]

\* Buffer::slice(offset, length) on a buffer that holds the new window
BufferSlice(buf, offset, length) ==
    [data |-> buf.data, offset |-> buf.offset + offset, length |-> length]

\* the number of unset bits of a window of bits
UnsetBits(bits, offset, length) ==
    Cardinality({k \in 1..length : ~bits[offset + k]})

\* Bitmap -> NullBuffer
BitmapToNulls(b) ==
    [buffer |-> [bits |-> b.bits, offset |-> b.offset, len |-> b.length],
     null_count |-> UnsetBits(b.bits, b.offset, b.length)]

\* Bitmap::from_null_buffer
from_null_buffer(n) ==
    [bits |-> n.buffer.bits, offset |-> n.buffer.offset, length |-> n.buffer.len]

\* self.validity.as_ref().map(|b| b.clone().into())
ValidityToNulls(validity) ==
    IF IsSome(validity) THEN Some(BitmapToNulls(Unwrap(validity))) ELSE None

\* data.nulls().map(|n| Bitmap::from_null_buffer(n.clone()))
NullsToValidity(nulls) ==
    IF IsSome(nulls) THEN Some(from_null_buffer(Unwrap(nulls))) ELSE None

\* PrimitiveArray::len
ArrayLen(array) == array.values.length

\* PrimitiveArray::to_data
ToDataDropsValidity(array) ==
    [data_type |-> DtypeToArrow(array.dtype),
     len |-> ArrayLen(array),
     offset |-> 0,
     buffers |-> <<BufferToArrow(array.values, array.dtype)>>,
     nulls |-> None]

to_data(array) ==
    [data_type |-> DtypeToArrow(array.dtype),
     len |-> ArrayLen(array),
     offset |-> 0,
     buffers |-> <<BufferToArrow(array.values, array.dtype)>>,
     nulls |-> ValidityToNulls(array.validity)]

\* PrimitiveArray::from_data on a descriptor whose first buffer holds
\* offset + len elements
FromDataNoSlice(d) ==
    LET dtype == DtypeFromArrow(d.data_type)
        vals == BufferFromArrow(d.buffers[1], dtype)
    IN [dtype |-> dtype,
        values |-> BufferSlice(vals, 0, d.len),
        validity |-> NullsToValidity(d.nulls)]

from_data(d) ==
    LET dtype == DtypeFromArrow(d.data_type)
        vals == BufferFromArrow(d.buffers[1], dtype)
    IN [dtype |-> dtype,
        values |-> BufferSlice(vals, d.offset, d.len),
        validity |-> NullsToValidity(d.nulls)]

\* ----------------------------------------------------------------- state
VARIABLES
    values,     \* RowsEncoded.values
    offsets,    \* RowsEncoded.offsets
    origin,     \* none, new, default, new.clone, default.clone
    consumed,   \* the RowsEncoded was moved into into_array / into_binview
    iters,      \* iterator id -> Option<RowsEncodedIter state>
    yielded,    \* iterator id -> the slices next() has returned so far
    ret,        \* iterator id -> what the last next() returned: "-", "Some", "None"
    range,      \* iterator id -> the range of the last get_unchecked
    borrowed,   \* Option: the array borrow_array returned
    exported,   \* Option: the array into_array / into_binview returned
    lastOp,     \* the last call made on the buffer
    checksRun,  \* calls of checks made by the last call
    panic,      \* message of the panic that ended the run, "" for none
    ub,         \* an unchecked slice was taken outside values
    column,     \* Option<PrimitiveArray>: the column handed to to_data
    data,       \* Option<ArrayData>: the interchange descriptor
    imported,   \* Option<PrimitiveArray>: the column from_data returned
    bridgeOp    \* the last bridge call

rowVars == <<values, offsets, origin, consumed, iters, yielded, ret, range,
             borrowed, exported, lastOp, checksRun, panic, ub>>
iterVars == <<iters, yielded, ret, range>>
bridgeVars == <<column, data, imported, bridgeOp>>
vars == <<values, offsets, origin, consumed, iters, yielded, ret, range,
          borrowed, exported, lastOp, checksRun, panic, ub,
          column, data, imported, bridgeOp>>

\* ------------------------------------------------------------ the inputs
\* the rows "abc", "", "xy" packed by the encoder
ExampleValues == <<97, 98, 99, 120, 121>>
ExampleOffsets == <<FromNat(0), FromNat(3), FromNat(3), FromNat(5)>>

U64Max == <<LimbMax, LimbMax, LimbMax, LimbMax>>

ValuesIn == {[k \in 1..n |-> ByteAt(k)] : n \in 0..MaxValuesLen}
SmallOffsets == {FromNat(n) : n \in 0..MaxValuesLen}
HugeOffsets == {I64MaxLess1, I64MaxAsU64, TwoPow63, U64Max}
\* inputs of the iteration runs: every offset is small, in any order
OffsetsIn == BoundedSeq(SmallOffsets, MaxRows + 1)
\* inputs of the export runs: offsets around 2^63 as well
WideOffsetsIn == BoundedSeq(SmallOffsets \cup HugeOffsets, MaxRows + 1)

\* what an unchecked slice outside values may read
UBPayloads == BoundedSeq(GarbageBytes, 2)

NoIters == [i \in IterIds |-> None]
NoYield == [i \in IterIds |-> <<>>]
NoRet == [i \in IterIds |-> "-"]
NoRange == [i \in IterIds |-> <<FromNat(0), FromNat(0)>>]

RowsInit ==
    /\ values = <<>>
    /\ offsets = <<>>
    /\ origin = "none"
    /\ consumed = FALSE
    /\ iters = NoIters
    /\ yielded = NoYield
    /\ ret = NoRet
    /\ range = NoRange
    /\ borrowed = None
    /\ exported = None
    /\ lastOp = "none"
    /\ checksRun = 0
    /\ panic = ""
    /\ ub = FALSE

BridgeIdle ==
    /\ column = None
    /\ data = None
    /\ imported = None
    /\ bridgeOp = "none"

Init == RowsInit /\ BridgeIdle

\* the buffer exists and the run has neither panicked nor left defined behaviour
Running == origin # "none" /\ ~consumed /\ panic = "" /\ ~ub

\* ---------------------------------------------------------- the actions
\* RowsEncoded::new(values, offsets): no validation
New(v, o) ==
    /\ origin = "none"
    /\ values' = v
    /\ offsets' = o
    /\ origin' = "new"
    /\ lastOp' = "new"
    /\ UNCHANGED <<consumed, iters, yielded, ret, range, borrowed, exported,
                   checksRun, panic, ub>>
    /\ UNCHANGED bridgeVars

\* the encoder, or any other caller in the crate, builds a buffer
NewFrom(inputs) == origin = "none" /\ \E io \in inputs : New(io[1], io[2])

\* RowsEncoded::default(), derived: both vectors empty
Default ==
    /\ origin = "none"
    /\ values' = <<>>
    /\ offsets' = <<>>
    /\ origin' = "default"
    /\ lastOp' = "default"
    /\ UNCHANGED <<consumed, iters, yielded, ret, range, borrowed, exported,
                   checksRun, panic, ub>>
    /\ UNCHANGED bridgeVars

\* RowsEncoded::clone(), derived: a new buffer with equal vectors; the
\* iterators and the borrowed array stay with the original
Clone ==
    /\ Running
    /\ origin \in {"new", "default"}
    /\ values' = values
    /\ offsets' = offsets
    /\ origin' = IF origin = "new" THEN "new.clone" ELSE "default.clone"
    /\ lastOp' = "clone"
    /\ iters' = NoIters
    /\ yielded' = NoYield
    /\ ret' = NoRet
    /\ range' = NoRange
    /\ borrowed' = None
    /\ UNCHANGED <<consumed, exported, checksRun, panic, ub>>
    /\ UNCHANGED bridgeVars

\* let iterator i = self.iter()
Iter(i) ==
    /\ Running
    /\ LET r == iter(values, offsets) IN
        /\ panic' = r.panic
        /\ iters' = [iters EXCEPT ![i] = r.it]
    /\ yielded' = [yielded EXCEPT ![i] = <<>>]
    /\ ret' = [ret EXCEPT ![i] = "-"]
    /\ range' = [range EXCEPT ![i] = <<FromNat(0), FromNat(0)>>]
    /\ lastOp' = "iter"
    /\ UNCHANGED <<values, offsets, origin, consumed, borrowed, exported, checksRun, ub>>
    /\ UNCHANGED bridgeVars

\* iterator i .next()
IterNext(i) ==
    /\ Running
    /\ IsSome(iters[i])
    /\ LET r == next(Unwrap(iters[i]), values) IN
        /\ iters' = [iters EXCEPT ![i] = Some(r.it)]
        /\ ret' = [ret EXCEPT ![i] = IF r.some THEN "Some" ELSE "None"]
        /\ range' = [range EXCEPT ![i] = <<r.lo, r.hi>>]
        /\ ub' = ~r.defined
        /\ IF ~r.some THEN UNCHANGED yielded
           ELSE IF r.defined THEN yielded' = [yielded EXCEPT ![i] = Append(@, r.payload)]
           ELSE \E p \in UBPayloads : yielded' = [yielded EXCEPT ![i] = Append(@, p)]
    /\ lastOp' = "next"
    /\ UNCHANGED <<values, offsets, origin, consumed, borrowed, exported, checksRun, panic>>
    /\ UNCHANGED bridgeVars

\* unsafe { self.borrow_array() }
BorrowArray ==
    /\ Running
    /\ LET r == borrow_array(values, offsets) IN
        /\ panic' = r.panic
        /\ borrowed' = r.array
        /\ checksRun' = r.checks
    /\ lastOp' = "borrow_array"
    /\ UNCHANGED <<values, offsets, origin, consumed, exported, ub>>
    /\ UNCHANGED iterVars
    /\ UNCHANGED bridgeVars

\* self.into_array(): the buffer is moved, so no iterator of it is live; the
\* two vectors move into the array unchanged, so an array borrowed earlier
\* still views the same bytes
IntoArray ==
    /\ Running
    /\ LET r == into_array(values, offsets) IN
        /\ panic' = r.panic
        /\ exported' = r.array
        /\ checksRun' = r.checks
    /\ consumed' = TRUE
    /\ iters' = NoIters
    /\ lastOp' = "into_array"
    /\ UNCHANGED <<values, offsets, origin, yielded, ret, range, borrowed, ub>>
    /\ UNCHANGED bridgeVars

\* self.into_binview()
IntoBinview ==
    /\ Running
    /\ LET r == into_binview(values, offsets) IN
        /\ panic' = r.panic
        /\ exported' = r.array
        /\ checksRun' = r.checks
    /\ consumed' = TRUE
    /\ iters' = NoIters
    /\ lastOp' = "into_binview"
    /\ UNCHANGED <<values, offsets, origin, yielded, ret, range, borrowed, ub>>
    /\ UNCHANGED bridgeVars

\* the row buffer with its iterators and exports, fed with small offsets
Next ==
    \/ NewFrom(ValuesIn \X OffsetsIn)
    \/ New(ExampleValues, ExampleOffsets)
    \/ Default
    \/ Clone
    \/ \E i \in IterIds : Iter(i)
    \/ \E i \in IterIds : IterNext(i)
    \/ BorrowArray
    \/ IntoArray
    \/ IntoBinview

Spec == Init /\ [][Next]_vars

\* the exports alone, fed with offsets on both sides of 2^63
ExportNext ==
    \/ NewFrom(ValuesIn \X WideOffsetsIn)
    \/ New(ExampleValues, ExampleOffsets)
    \/ Default
    \/ Clone
    \/ BorrowArray
    \/ IntoArray
    \/ IntoBinview

ExportSpec == Init /\ [][ExportNext]_vars

\* ------------------------------------------------- row buffer: the claims
RowCount == Len(offsets) - 1
LastOffset == offsets[Len(offsets)]
NonDecreasing(offs) == \A k \in 1..(Len(offs) - 1) : U64Le(offs[k], offs[k + 1])

\* what the producer promises: row_count + 1 non-decreasing offsets that end
\* inside values
Conforming ==
    /\ Len(offsets) >= 1
    /\ NonDecreasing(offsets)
    /\ U64Le(LastOffset, FromNat(Len(values)))

\* values[offsets[k]..offsets[k+1]], rows counted from 1
Row(k) == SubSeq(values, ToNat(offsets[k]) + 1, ToNat(offsets[k + 1]))
Rows == [k \in 1..RowCount |-> Row(k)]

ExportOps == {"borrow_array", "into_array", "into_binview"}

\* C1: on a buffer with non-decreasing offsets, row_count + 1 of them, ending
\* inside values, an iterator yields slice k = values[offsets[k]..offsets[k+1]]
\* in index order, never leaves the bounds, and once drained has yielded
\* exactly row_count slices (none for offsets = [0] over empty values).
C1_RowSlicing ==
    (origin # "none" /\ Conforming) =>
        /\ ~ub
        /\ panic = ""
        /\ \A i \in IterIds :
            /\ Len(yielded[i]) <= RowCount
            /\ yielded[i] = SubSeq(Rows, 1, Len(yielded[i]))
            /\ (ret[i] = "None" => yielded[i] = Rows)

\* the rows "abc", "", "xy" drained in that order
C1_Witness ==
    /\ values = ExampleValues
    /\ offsets = ExampleOffsets
    /\ ret[1] = "None"
    /\ yielded[1] = << <<97, 98, 99>>, <<>>, <<120, 121>> >>

\* a buffer whose first offset is not 0, drained
C1_WitnessSkip ==
    /\ Conforming
    /\ offsets[1] # FromNat(0)
    /\ RowCount >= 1
    /\ ret[1] = "None"
    /\ yielded[1] # << <<>> >>

\* the state of iterator i
It(i) == Unwrap(iters[i])

\* what holds of every state of an iteration over a conforming buffer
C10_Inv ==
    (origin # "none" /\ Conforming) =>
        \A i \in IterIds :
            /\ (ret[i] = "Some") =>
                /\ U64Le(range[i][1], range[i][2])
                /\ U64Le(range[i][2], FromNat(Len(values)))
                /\ (IsSome(iters[i]) => It(i).offset = range[i][2])
            /\ IsSome(iters[i]) =>
                size_hint(It(i)) = <<RowCount - Len(yielded[i]),
                                     Some(RowCount - Len(yielded[i]))>>
            /\ (ret[i] = "None") => Len(yielded[i]) = RowCount

\* a next() after row_count rows returns None and leaves the iterator alone
C10_Step ==
    \A i \in IterIds :
        (Conforming /\ IsSome(iters[i]) /\ Len(yielded[i]) = RowCount /\ IterNext(i)) =>
            /\ ret'[i] = "None"
            /\ iters'[i] = iters[i]
            /\ yielded'[i] = yielded[i]

\* C10: over a buffer with non-decreasing offsets ending inside values, every
\* unchecked slice has cursor <= new end <= values.len(), the cursor then
\* equals the end just consumed, size_hint is exactly the number of rows not
\* yet yielded, and after row_count rows every next() returns None without
\* moving the cursor.
C10_IterSafety == []C10_Inv /\ [][C10_Step]_vars

\* a drained iterator asked again, after yielding a non-empty last row
C10_Witness ==
    /\ Conforming
    /\ RowCount >= 2
    /\ ret[1] = "None"
    /\ IsSome(iters[1])
    /\ It(1).offset = LastOffset
    /\ range[1][1] = LastOffset
    /\ Len(yielded[1]) = RowCount
    /\ yielded[1][RowCount] # <<>>
    /\ ret[2] = "Some"
    /\ U64Lt(range[2][1], range[2][2])

\* what holds of the slices taken so far while every slice was inside values
C7_Inv ==
    (origin # "none" /\ offsets # <<>> /\ ~ub) =>
        \A i \in IterIds :
            /\ Len(yielded[i]) <= RowCount
            /\ \A k \in 1..Len(yielded[i]) : yielded[i][k] = Row(k)
            /\ (ret[i] = "None") => Len(yielded[i]) = RowCount
            /\ \A j \in IterIds :
                (ret[i] = "None" /\ ret[j] = "None") => yielded[i] = yielded[j]

\* iter(), next() and borrow_array() leave values and offsets as they are,
\* and a step of one iterator leaves the other iterator as it is
C7_Step ==
    /\ ((\E i \in IterIds : Iter(i) \/ IterNext(i)) \/ BorrowArray) =>
            UNCHANGED <<values, offsets>>
    /\ \A i \in IterIds : (Iter(i) \/ IterNext(i)) =>
            \A j \in IterIds \ {i} :
                /\ iters'[j] = iters[j]
                /\ yielded'[j] = yielded[j]
                /\ ret'[j] = ret[j]

\* C7: iter() and borrow_array() never change values or offsets, every iter()
\* starts afresh, and under any interleaving of the next() steps of two
\* iterators of one buffer each yields the buffer's complete row sequence,
\* the same as the other's, however far the other has advanced (as long as
\* no slice was taken outside values).
C7_IndependentIterators == []C7_Inv /\ [][C7_Step]_vars

\* one iterator drained, the other restarted and part-way, after a borrow
C7_Witness ==
    /\ Conforming
    /\ RowCount >= 2
    /\ IsSome(borrowed)
    /\ ret[1] = "None"
    /\ yielded[1] = Rows
    /\ IsSome(iters[2])
    /\ Len(yielded[2]) = 1
    /\ yielded[2][1] # <<>>

\* ----------------------------------------------------- exports: the claims
\* the exporting call just made returned its array
Returned ==
    /\ panic = ""
    /\ (lastOp = "borrow_array" => IsSome(borrowed))
    /\ (lastOp \in {"into_array", "into_binview"} => IsSome(exported))

\* the exporting call just made returned nothing
ReturnedNothing ==
    /\ (lastOp = "borrow_array" => borrowed = None)
    /\ (lastOp \in {"into_array", "into_binview"} => exported = None)

\* C2, as the specification states it: every exporting call succeeds when
\* the last offset is below 2^63, a last offset of 2^63 - 1 included.
C2_SucceedsBelowTwoPow63 ==
    (lastOp \in ExportOps /\ offsets # <<>> /\ U64Lt(LastOffset, TwoPow63)) => Returned

\* C3: new validates nothing; an exporting call on a buffer whose last offset
\* is >= 2^63 panics with "overflow" and returns no array, so no offset was
\* reinterpreted; the check reads the last offset alone (huge earlier offsets
\* do not trip it) and runs once per call.
C3_OverflowGuard ==
    /\ (lastOp = "new" => panic = "" /\ origin = "new")
    /\ (lastOp \in ExportOps /\ offsets # <<>>) =>
        /\ checksRun = 1
        /\ U64Le(TwoPow63, LastOffset) => (panic = "overflow" /\ ReturnedNothing)
        /\ U64Lt(LastOffset, I64MaxAsU64) => Returned

\* into_binview stopped by a last offset of exactly 2^63
C3_Witness ==
    /\ lastOp = "into_binview"
    /\ RowCount >= 1
    /\ LastOffset = TwoPow63
    /\ panic = "overflow"
    /\ exported = None

\* a huge offset that is not the last one goes unchecked
C3_WitnessLastOnly ==
    /\ lastOp = "borrow_array"
    /\ RowCount >= 1
    /\ offsets[1] = TwoPow63
    /\ panic = ""
    /\ IsSome(borrowed)

\* array arr is the LargeBinary image of the buffer: its bytes are values, its
\* offsets are the buffer's offsets with the same numeric values, no validity
ImageOfBuffer(arr) ==
    /\ arr.dtype = "LargeBinary"
    /\ arr.values = values
    /\ Len(arr.offsets) = Len(offsets)
    /\ \A k \in 1..Len(offsets) : SameNumber(arr.offsets[k], offsets[k])
    /\ arr.validity = None

\* both exports of one buffer are at hand
BothExported == lastOp = "into_array" /\ IsSome(borrowed) /\ IsSome(exported)

EqualExports ==
    /\ Unwrap(borrowed).values = Unwrap(exported).values
    /\ Unwrap(borrowed).offsets = Unwrap(exported).offsets
    /\ ImageOfBuffer(Unwrap(borrowed))
    /\ ImageOfBuffer(Unwrap(exported))

\* C6, as stated: for every (values, offsets) that passes the overflow check
\* borrow_array and into_array give equal value and offset buffers, every
\* signed offset having the numeric value of the unsigned one, no validity.
C6_Original == BothExported => EqualExports

\* C6, amended: the same for every (values, offsets) with non-decreasing
\* offsets that passes the overflow check.
C6_ExportEquivalence == (BothExported /\ NonDecreasing(offsets)) => EqualExports

\* two rows borrowed and then moved out
C6_Witness ==
    /\ BothExported
    /\ NonDecreasing(offsets)
    /\ RowCount >= 2
    /\ values # <<>>
    /\ offsets[1] # LastOffset

IntoArrayReturned == lastOp = "into_array" /\ panic = ""

IntoArrayImage ==
    /\ consumed
    /\ IsSome(exported)
    /\ ImageOfBuffer(Unwrap(exported))
    /\ Len(Unwrap(exported).offsets) - 1 = RowCount

\* C8, as stated: into_array on any buffer that passes the overflow check
\* consumes it and returns the LargeBinary array of row_count rows over
\* values with the signed offsets equal to the offsets, without null bitmap.
C8_Original == IntoArrayReturned => IntoArrayImage

\* "abcxy" with offsets [0, 3, 3, 5] moved out
ExampleArray ==
    [dtype |-> "LargeBinary",
     offsets |-> [k \in 1..4 |-> [neg |-> FALSE, mag |-> ExampleOffsets[k]]],
     values |-> ExampleValues,
     validity |-> None]

\* C8, amended: the same for a buffer whose offsets are non-decreasing; so
\* "abcxy" with [0, 3, 3, 5] gives length 3, and [0] over no bytes length 0.
C8_IntoArray ==
    /\ (IntoArrayReturned /\ NonDecreasing(offsets)) => IntoArrayImage
    /\ (lastOp = "into_array" /\ values = ExampleValues /\ offsets = ExampleOffsets) =>
            exported = Some(ExampleArray)
    /\ (lastOp = "into_array" /\ values = <<>> /\ offsets = <<FromNat(0)>>) =>
            /\ IsSome(exported)
            /\ Len(Unwrap(exported).offsets) - 1 = 0

C8_Witness ==
    /\ lastOp = "into_array"
    /\ consumed
    /\ values = ExampleValues
    /\ offsets = ExampleOffsets
    /\ exported = Some(ExampleArray)

\* the buffer came from new with conforming input, from default, or from a
\* clone of either
Obtainable ==
    \/ origin \in {"default", "default.clone"}
    \/ (origin \in {"new", "new.clone"} /\ Conforming)

\* C9, as the specification states it: every obtainable buffer has at least
\* one offset, so no call fails for lack of a first or last offset.
C9_OffsetsNonempty ==
    Obtainable =>
        /\ Len(offsets) >= 1
        /\ panic \notin {"unwrap on None", "range start index 1 out of range"}

\* ------------------------------------------------- bridge: inputs, actions
Dtypes == {"Int32", "Int64"}

\* the windows of length n of a storage of length total
Windows(total) == {w \in (0..total) \X (0..total) : w[1] + w[2] <= total}

\* the value storages: one of each length up to maxLen
StoragesUpTo(maxLen) == {[k \in 1..n |-> NativeAt(k)] : n \in 0..maxLen}

\* validity bitmaps of n bits: every bit pattern, at the start of its bit
\* storage or one bit into it
ValidBitmaps(n) ==
    UNION {{[bits |-> b, offset |-> o, length |-> n] : b \in [1..(o + n) -> BOOLEAN]} :
           o \in {0, 1}}

NullBuffersOfLen(n) == {BitmapToNulls(b) : b \in ValidBitmaps(n)}

\* every primitive column over those storages: any window, validity or none
ColumnsUpTo(maxLen) ==
    UNION { UNION {
        {[dtype |-> t,
          values |-> [data |-> st, offset |-> w[1], length |-> w[2]],
          validity |-> v] :
            t \in Dtypes,
            v \in {None} \cup {Some(b) : b \in ValidBitmaps(w[2])}} :
        w \in Windows(Len(st))} :
        st \in StoragesUpTo(maxLen)}

\* descriptors built elsewhere: one value buffer, any offset and length (also
\* beyond the buffer), a null buffer of len bits or none
DataUpTo(maxLen) ==
    UNION { UNION {
        {[data_type |-> DtypeToArrow(t),
          len |-> n,
          offset |-> o,
          buffers |-> <<[data |-> st,
                         byte_offset |-> w[1] * NativeSize(t),
                         byte_len |-> w[2] * NativeSize(t)]>>,
          nulls |-> nb] :
            t \in Dtypes, o \in 0..maxLen,
            nb \in {None} \cup {Some(x) : x \in NullBuffersOfLen(n)}} :
        n \in 0..maxLen, w \in Windows(Len(st))} :
        st \in StoragesUpTo(maxLen)}

\* the elements the value buffer of descriptor d holds
BufferElems(d) == d.buffers[1].byte_len \div NativeSize(d.data_type)

\* the conventions from_data relies on
DescriptorHolds(d) ==
    /\ Len(d.buffers) = 1
    /\ d.offset + d.len <= BufferElems(d)

\* what from_data may return on a descriptor that breaks the conventions
UndefinedColumns(d) ==
    {[dtype |-> DtypeFromArrow(d.data_type),
      values |-> [data |-> g, offset |-> 0, length |-> d.len],
      validity |-> NullsToValidity(d.nulls)] :
        g \in [1..d.len -> GarbageNatives]}

\* nothing has crossed the bridge yet
BridgeFresh == origin = "none" /\ column = None /\ data = None

\* a typed column is at hand
NewColumn(c) ==
    /\ BridgeFresh
    /\ column' = Some(c)
    /\ bridgeOp' = "column"
    /\ UNCHANGED <<data, imported>>
    /\ UNCHANGED rowVars

\* a descriptor arrives from the other side of the boundary
NewData(d) ==
    /\ BridgeFresh
    /\ data' = Some(d)
    /\ bridgeOp' = "descriptor"
    /\ UNCHANGED <<column, imported>>
    /\ UNCHANGED rowVars

NewColumnFrom(columns) == BridgeFresh /\ \E c \in columns : NewColumn(c)
NewDataFrom(descriptors) == BridgeFresh /\ \E d \in descriptors : NewData(d)

\* data = column.to_data()
ToData ==
    /\ IsSome(column)
    /\ data = None
    /\ data' = Some(to_data(Unwrap(column)))
    /\ bridgeOp' = "to_data"
    /\ UNCHANGED <<column, imported>>
    /\ UNCHANGED rowVars

\* imported = PrimitiveArray::from_data(&data)
FromData ==
    /\ IsSome(data)
    /\ bridgeOp \in {"to_data", "descriptor"}
    /\ LET d == Unwrap(data) IN
        IF DescriptorHolds(d)
        THEN /\ imported' = Some(from_data(d))
             /\ bridgeOp' = "from_data"
        ELSE /\ imported' \in {None} \cup {Some(c) : c \in UndefinedColumns(d)}
             /\ bridgeOp' = "undefined"
    /\ UNCHANGED <<column, data>>
    /\ UNCHANGED rowVars

BridgeNext ==
    \/ NewColumnFrom(ColumnsUpTo(MaxStorage))
    \/ NewDataFrom(DataUpTo(MaxStorage))
    \/ ToData
    \/ FromData

BridgeSpec == Init /\ [][BridgeNext]_vars

\* ------------------------------------------------------ bridge: the claims
\* element i and validity bit i of a column, i counted from 0
Elem(array, i) == array.values.data[array.values.offset + i + 1]
Bit(bitmap, i) == bitmap.bits[bitmap.offset + i + 1]

SameValidity(va, vb) ==
    /\ IsSome(va) <=> IsSome(vb)
    /\ IsSome(va) =>
        /\ Unwrap(va).length = Unwrap(vb).length
        /\ \A i \in 0..(Unwrap(va).length - 1) : Bit(Unwrap(va), i) = Bit(Unwrap(vb), i)

SameColumn(a, b) ==
    /\ a.dtype = b.dtype
    /\ ArrayLen(a) = ArrayLen(b)
    /\ \A i \in 0..(ArrayLen(a) - 1) : Elem(a, i) = Elem(b, i)
    /\ SameValidity(a.validity, b.validity)

\* C4: from_data(to_data(column)) has the column's datatype tag, its length,
\* its element at every index of the window, and its validity bitmap: none
\* stays none, a bitmap stays bit for bit the same over the window.
C4_RoundTrip ==
    (IsSome(column) /\ bridgeOp \in {"from_data", "undefined"}) =>
        /\ bridgeOp = "from_data"
        /\ IsSome(imported)
        /\ SameColumn(Unwrap(column), Unwrap(imported))

\* a window that starts inside its storage, with a null in it, round-tripped
C4_Witness ==
    /\ IsSome(column)
    /\ IsSome(imported)
    /\ Unwrap(column).values.offset > 0
    /\ ArrayLen(Unwrap(column)) >= 1
    /\ IsSome(Unwrap(column).validity)
    /\ Unwrap(Unwrap(column).validity).offset > 0
    /\ ~Bit(Unwrap(Unwrap(column).validity), 0)
    /\ IsSome(Unwrap(imported).validity)

\* element k of the value buffer B of descriptor d, k counted from 0
BufElem(d, k) ==
    d.buffers[1].data[(d.buffers[1].byte_offset \div NativeSize(d.data_type)) + k + 1]
\* the validity descriptor d gives its logical element i
NullBit(d, i) == Unwrap(d.nulls).buffer.bits[Unwrap(d.nulls).buffer.offset + i + 1]

\* C5: for a descriptor with one value buffer B, offset o and length n with
\* o + n <= len(B), from_data returns n elements, element i being B[o + i];
\* with a null buffer the validity bitmap has n bits, bit i the descriptor's
\* validity of element i; without one the column has no validity bitmap.
C5_ImportWindow ==
    (IsSome(data) /\ DescriptorHolds(Unwrap(data))
        /\ bridgeOp \in {"from_data", "undefined"}) =>
        LET d == Unwrap(data) IN
        /\ bridgeOp = "from_data"
        /\ IsSome(imported)
        /\ ArrayLen(Unwrap(imported)) = d.len
        /\ \A i \in 0..(d.len - 1) : Elem(Unwrap(imported), i) = BufElem(d, d.offset + i)
        /\ (d.nulls = None) => Unwrap(imported).validity = None
        /\ IsSome(d.nulls) =>
            /\ IsSome(Unwrap(imported).validity)
            /\ Unwrap(Unwrap(imported).validity).length = d.len
            /\ \A i \in 0..(d.len - 1) :
                Bit(Unwrap(Unwrap(imported).validity), i) = NullBit(d, i)

\* a descriptor that views the second element of a shared buffer, with nulls
C5_Witness ==
    /\ column = None
    /\ IsSome(data)
    /\ IsSome(imported)
    /\ bridgeOp = "from_data"
    /\ Unwrap(data).offset > 0
    /\ Unwrap(data).len >= 1
    /\ IsSome(Unwrap(data).nulls)
    /\ Elem(Unwrap(imported), 0) # BufElem(Unwrap(data), 0)

====
